---- MODULE Spec2Model ----
(***************************************************************************)
(* A model of reaction_completer: MaterialInformation (material.py), the   *)
(* balancer ReactionCompleter (completer.py), the printer and renderer     *)
(* (formatting.py) and the driver balance_recipe (driver.py).              *)
(*                                                                         *)
(* Amounts are numerals (no free symbols): every recipe is written either  *)
(* with float literals ("1.0", sympy Float) or with integer literals       *)
(* ("1", sympy Integer); numfmt records which.  Numbers are exact          *)
(* rationals <<n, d>>; a Float is rounded only where the code rounds it    *)
(* (simplify_print).                                                       *)
(***************************************************************************)
EXTENDS Integers, Sequences, FiniteSets, TLC

(***************************************************************************)
(* Bounds of the model.                                                    *)
(***************************************************************************)
MaxPrecursors == 3
MaxTargets == 1

(***************************************************************************)
(* Rational arithmetic (sympy's exact numbers).                            *)
(***************************************************************************)
Abs(n) == IF n < 0 THEN -n ELSE n

RECURSIVE Gcd(_, _)
Gcd(a, b) == IF b = 0 THEN a ELSE Gcd(b, a % b)

Norm(n, d) ==
    LET s == IF d < 0 THEN -1 ELSE 1
        g == Gcd(Abs(n), Abs(d))
    IN  <<(s * n) \div g, (s * d) \div g>>

Rat(n) == <<n, 1>>
RAdd(a, b) == Norm(a[1] * b[2] + b[1] * a[2], a[2] * b[2])
RSub(a, b) == Norm(a[1] * b[2] - b[1] * a[2], a[2] * b[2])
RMul(a, b) == Norm(a[1] * b[1], a[2] * b[2])
RDiv(a, b) == Norm(a[1] * b[2], a[2] * b[1])
RNeg(a) == <<-a[1], a[2]>>
RIsZero(a) == a[1] = 0
RIsNeg(a) == a[1] < 0

RECURSIVE RSum(_)
RSum(s) == IF s = <<>> THEN Rat(0) ELSE RAdd(Head(s), RSum(Tail(s)))

(***************************************************************************)
(* Strings.  A string is named by a TLA+ string; Chars gives its           *)
(* characters and Ord the code point of a character, so that Python's      *)
(* `in`, len, string comparison and regular expressions are computed on    *)
(* the characters.                                                         *)
(***************************************************************************)
Chars(s) ==
    CASE s = "BaCO3"     -> <<"B", "a", "C", "O", "3">>
      [] s = "TiO2"      -> <<"T", "i", "O", "2">>
      [] s = "Ba3TiO5"   -> <<"B", "a", "3", "T", "i", "O", "5">>
      [] s = "B3T"       -> <<"B", "3", "T">>
      [] s = "EtOH"      -> <<"E", "t", "O", "H">>
      [] s = "XO"        -> <<"X", "O">>
      [] s = "BaTiO3"    -> <<"B", "a", "T", "i", "O", "3">>
      [] s = "BaAO3"     -> <<"B", "a", "A", "O", "3">>
      [] s = "BaTiO2A"   -> <<"B", "a", "T", "i", "O", "2", "A">>
      [] s = "TiBaCO2"   -> <<"T", "i", "B", "a", "C", "O", "2">>
      [] s = "titania"   -> <<"t", "i", "t", "a", "n", "i", "a">>
      [] s = "BaH2O"     -> <<"B", "a", "H", "2", "O">>
      [] s = "CO2"       -> <<"C", "O", "2">>
      [] s = "H2O"       -> <<"H", "2", "O">>
      [] s = "O2"        -> <<"O", "2">>
      [] s = "NH3"       -> <<"N", "H", "3">>
      [] s = "NH4"       -> <<"N", "H", "4">>
      [] s = "[OH-]"     -> <<"[", "O", "H", "-", "]">>
      [] s = "[NO3-]"    -> <<"[", "N", "O", "3", "-", "]">>
      [] s = "[CH3COO-]" -> <<"[", "C", "H", "3", "C", "O", "O", "-", "]">>
      [] s = "BaCO3 TiO2" ->
            <<"B", "a", "C", "O", "3", " ", "T", "i", "O", "2">>
      [] s = "B3T TiO2"  -> <<"B", "3", "T", " ", "T", "i", "O", "2">>
      [] s = "Ti4+"      -> <<"T", "i", "4", "+">>
      [] s = "Ba"        -> <<"B", "a">>
      [] s = "Ti"        -> <<"T", "i">>
      [] s = "Sr"        -> <<"S", "r">>
      [] s = "Ln"        -> <<"L", "n">>
      [] s = "Xx"        -> <<"X", "x">>
      [] s = "e-"        -> <<"e", "-">>
      [] s \in {"A", "C", "H", "N", "O"} -> <<s>>
      [] OTHER           -> <<>>

Ord(c) ==
    CASE c = " " -> 32 [] c = "(" -> 40 [] c = ")" -> 41 [] c = "+" -> 43
      [] c = "-" -> 45
      [] c = "2" -> 50 [] c = "3" -> 51 [] c = "4" -> 52 [] c = "5" -> 53
      [] c = "A" -> 65 [] c = "B" -> 66 [] c = "C" -> 67 [] c = "E" -> 69
      [] c = "H" -> 72 [] c = "L" -> 76 [] c = "N" -> 78 [] c = "O" -> 79
      [] c = "S" -> 83 [] c = "T" -> 84
      [] c = "X" -> 88 [] c = "[" -> 91 [] c = "]" -> 93 [] c = "_" -> 95
      [] c = "a" -> 97 [] c = "e" -> 101 [] c = "i" -> 105 [] c = "n" -> 110
      [] c = "r" -> 114 [] c = "t" -> 116 [] c = "x" -> 120
      [] OTHER -> 0

StrLen(s) == Len(Chars(s))

\* Python: a in b, for strings.
SeqIn(ca, cb) ==
    \E i \in 0..(Len(cb) - Len(ca)) :
        \A k \in 1..Len(ca) : cb[i + k] = ca[k]

StrIn(a, b) == SeqIn(Chars(a), Chars(b))

\* Python: a < b, for strings (lexicographic on code points).
RECURSIVE SeqLess(_, _)
SeqLess(a, b) ==
    LET Compare(x, y) == IF x # y THEN x < y ELSE SeqLess(Tail(a), Tail(b))
    IN  IF b = <<>> THEN FALSE
        ELSE IF a = <<>> THEN TRUE
        ELSE Compare(Ord(Head(a)), Ord(Head(b)))

StrLess(a, b) == SeqLess(Chars(a), Chars(b))

\* Python: sorted(S), for a set of strings.
RECURSIVE SortedStrings(_)
SortedStrings(S) ==
    LET First(m) == <<m>> \o SortedStrings(S \ {m})
    IN  IF S = {} THEN <<>>
        ELSE First(CHOOSE x \in S : \A y \in S \ {x} : StrLess(x, y))

Range(s) == {s[i] : i \in DOMAIN s}

\* The numbers of a set in increasing order.
RECURSIVE SetToSortedIdx(_)
SetToSortedIdx(S) ==
    IF S = {} THEN <<>>
    ELSE LET m == CHOOSE x \in S : \A y \in S : x <= y
         IN  <<m>> \o SetToSortedIdx(S \ {m})

\* Python: d.get(k, 0), for a dict of numbers.
Get(d, k) == IF k \in DOMAIN d THEN d[k] ELSE 0

\* Python: d.update(e), the result.
Update(d, e) == e @@ d

EmptyDict == [k \in {} |-> 0]

\* The sum of f[x] over x in S, f a function to integers.
RECURSIVE SumFn(_, _)
SumFn(f, S) ==
    IF S = {} THEN 0
    ELSE LET x == CHOOSE y \in S : TRUE
         IN  f[x] + SumFn(f, S \ {x})

(***************************************************************************)
(* The periodic table (reaction_completer/periodic_table.py), cut to the   *)
(* elements the recipes of the model use.                                  *)
(***************************************************************************)
ELEMENTS == {"Ba", "Ti", "Sr", "C", "H", "N", "O"}
NON_VOLATILE_ELEMENTS == {"Ba", "Ti", "Sr"}

(***************************************************************************)
(* The exception classes (reaction_completer/errors.py).                   *)
(***************************************************************************)
CannotBalanceTypes ==
    {"CannotBalance", "TooFewPrecursors", "TooManyPrecursors", "StupidRecipe",
     "ExpressionPrintException"}
IsCannotBalance(e) == e \in CannotBalanceTypes

(***************************************************************************)
(* MaterialInformation (material.py).  A substitution is a set of pairs    *)
(* <<placeholder, element>>; None is the empty set (the driver never       *)
(* passes an empty dict).                                                  *)
(***************************************************************************)
NoSubstitution == {}

Substituted(sub, element) ==
    IF \E p \in sub : p[1] = element
    THEN (CHOOSE p \in sub : p[1] = element)[2]
    ELSE element

\* The element keys of the raw composition (all_elements of __init__).
RawElements(composition) ==
    UNION {DOMAIN composition[i].elements : i \in DOMAIN composition}

\* What __init__ raises before _parse, "" when nothing.
InitCheck(composition, sub) ==
    IF \E p \in sub : p[1] \notin RawElements(composition) \/ p[2] \notin ELEMENTS
    THEN "ValueError"
    ELSE IF \E e \in RawElements(composition) \ {p[1] : p \in sub} :
                e \notin ELEMENTS
    THEN "FormulaException"
    ELSE ""

\* _parse: the summed amount of element e (after substitution) over the
\* components, fraction * amount each.
ParsedAmount(composition, sub, e) ==
    LET Total(pairs) ==
            SumFn([p \in pairs |->
                    composition[p[1]].amount * composition[p[1]].elements[p[2]]],
                  pairs)
    IN  Total({<<i, k>> \in (DOMAIN composition) \X RawElements(composition) :
                    /\ k \in DOMAIN composition[i].elements
                    /\ Substituted(sub, k) = e})

ParsedDict(composition, sub, keep) ==
    LET keys == {e \in {Substituted(sub, k) : k \in RawElements(composition)} :
                    e \in keep}
    IN  [e \in keys |-> ParsedAmount(composition, sub, e)]

MaterialInformation(material_string, material_formula, composition, sub) ==
    LET Parsed(exc, keep) ==
            IF exc = "" THEN ParsedDict(composition, sub, keep) ELSE EmptyDict
        Object(exc) ==
            [exc |-> exc,
             material_string |-> material_string,
             material_formula |-> material_formula,
             material_composition |-> composition,
             substitution_dict |-> sub,
             non_volatile_elements |-> Parsed(exc, NON_VOLATILE_ELEMENTS),
             other_elements |-> Parsed(exc, ELEMENTS \ NON_VOLATILE_ELEMENTS)]
    IN  Object(InitCheck(composition, sub))

nv_elements(m) == DOMAIN m.non_volatile_elements
v_elements(m) == DOMAIN m.other_elements
all_elements_dict(m) == Update(m.non_volatile_elements, m.other_elements)
all_elements(m) == nv_elements(m) \cup v_elements(m)

\* _compare_composition: same keys, not empty, one ratio comp1[k] / comp2[k].
compare_composition(comp1, comp2) ==
    /\ DOMAIN comp1 = DOMAIN comp2
    /\ DOMAIN comp1 # {}
    /\ \A k1, k2 \in DOMAIN comp1 :
            comp1[k1] * comp2[k2] = comp1[k2] * comp2[k1]

component_search_helper(m, target_comp, exclude_nv) ==
    LET Subset(els) ==
            IF exclude_nv
            THEN [x \in DOMAIN els \ NON_VOLATILE_ELEMENTS |-> els[x]]
            ELSE els
    IN  \E i \in DOMAIN m.material_composition :
            compare_composition(Subset(m.material_composition[i].elements),
                                target_comp)

is_hco(m) == all_elements(m) = {"C", "H", "O"}

COMP_WATER == ("H" :> 2) @@ ("O" :> 1)
COMP_ACETATE == ("C" :> 2) @@ ("H" :> 3) @@ ("O" :> 2)
COMP_ACETATE_CHARGED == ("C" :> 2) @@ ("H" :> 3) @@ ("O" :> 2) @@ ("e-" :> 1)
COMP_NITRATE == ("N" :> 1) @@ ("O" :> 3)
COMP_NITRATE_CHARGED == ("N" :> 1) @@ ("O" :> 3) @@ ("e-" :> 1)
COMP_HYDROXIDE == ("H" :> 1) @@ ("O" :> 1)
COMP_HYDROXIDE_CHARGED == ("H" :> 1) @@ ("O" :> 1) @@ ("e-" :> 1)
COMP_CARBONATE == ("C" :> 1) @@ ("O" :> 3)
COMP_AMMONIUM == ("H" :> 4) @@ ("N" :> 1)
COMP_CO2 == ("C" :> 1) @@ ("O" :> 2)
COMP_NH3 == ("H" :> 3) @@ ("N" :> 1)
COMP_O2 == ("O" :> 2)

has_water(m) == component_search_helper(m, COMP_WATER, FALSE)
has_acetate(m) == component_search_helper(m, COMP_ACETATE, TRUE)
has_nitrate(m) == component_search_helper(m, COMP_NITRATE, TRUE)
has_hydroxide(m) == component_search_helper(m, COMP_HYDROXIDE, TRUE)
has_carbonate(m) == component_search_helper(m, COMP_CARBONATE, TRUE)
has_ammonium(m) == component_search_helper(m, COMP_AMMONIUM, TRUE)

NoChemicals == [k \in {} |-> EmptyDict]
SolutionChemicals == ("[OH-]" :> COMP_HYDROXIDE_CHARGED) @@ ("H2O" :> COMP_WATER)

\* decompose_chemicals: formula -> element counts.
decompose_chemicals(m) ==
    LET Ammonium(d) ==
            IF StrIn("NH4", m.material_formula)
            THEN Update(d, "NH3" :> COMP_NH3)
            ELSE d
        Carbonate(d) ==
            Ammonium(IF has_carbonate(m) THEN Update(d, "CO2" :> COMP_CO2)
                     ELSE d)
        Hydroxide(d) ==
            Carbonate(IF has_hydroxide(m)
                      THEN Update(Update(d, "[OH-]" :> COMP_HYDROXIDE_CHARGED),
                                  SolutionChemicals)
                      ELSE d)
        Nitrate(d) ==
            Hydroxide(IF has_nitrate(m)
                      THEN Update(Update(d, "[NO3-]" :> COMP_NITRATE_CHARGED),
                                  SolutionChemicals)
                      ELSE d)
        Acetate(d) ==
            Nitrate(IF has_acetate(m)
                    THEN Update(Update(d, "[CH3COO-]" :> COMP_ACETATE_CHARGED),
                                SolutionChemicals)
                    ELSE d)
    IN  Acetate(IF has_water(m) THEN ("H2O" :> COMP_WATER) ELSE NoChemicals)

exchange_chemicals(m) ==
    IF "O" \in v_elements(m) THEN ("O2" :> COMP_O2) ELSE NoChemicals

(***************************************************************************)
(* The printer (formatting.py).  A printed amount is modelled by the       *)
(* number its numeral denotes; "0" is Rat(0), "1" is Rat(1).               *)
(***************************************************************************)
VARIABLES
    numfmt,                 \* "float": amounts written "1.0"; "int": written "1"
    precursors,             \* argument of balance_recipe: precursor dicts
    targets,                \* argument of balance_recipe: target dicts
    sentences,              \* argument of balance_recipe
    pc,                     \* where balance_recipe is
    targets_to_balance,     \* the (target, substitution) variants
    precursors_to_balance,  \* the screened precursors
    vi,                     \* the variant of the current loop iteration
    solutions,              \* the list balance_recipe returns
    precursor_candidates,   \* the subsets of the current exception handler
    ci,                     \* the subset the candidate loop is at
    raised,                 \* the exception that left balance_recipe, or ""
    log                     \* every try_balance call so far, with its outcome

vars == <<numfmt, precursors, targets, sentences, pc, targets_to_balance,
          precursors_to_balance, vi, solutions, precursor_candidates, ci,
          raised, log>>

FLOAT_ROUND == 3

RECURSIVE Pow10(_)
Pow10(k) == IF k = 0 THEN 1 ELSE 10 * Pow10(k - 1)

\* Float.round(FLOAT_ROUND), then nicely_print_float: the nearest multiple
\* of 10^-FLOAT_ROUND.
RoundFloat(val) ==
    LET Rounded(scale) ==
            Norm((IF val[1] < 0 THEN -1 ELSE 1)
                    * ((2 * scale * Abs(val[1]) + val[2]) \div (2 * val[2])),
                 scale)
    IN  Rounded(Pow10(FLOAT_ROUND))

\* simplify_print of a number: a Float is rounded, an Integer printed as it
\* is, and a Rational that is no Integer has no branch.
simplify_print(val) ==
    IF numfmt = "float" /\ ~RIsZero(val)
    THEN [exc |-> "", value |-> RoundFloat(val)]
    ELSE IF val[2] = 1
    THEN [exc |-> "", value |-> val]
    ELSE [exc |-> "ExpressionPrintException", value |-> val]

(***************************************************************************)
(* sympy's Matrix.gauss_jordan_solve on the augmented matrix: reduced row  *)
(* echelon form, then no solution (ValueError), free parameters, or the    *)
(* unique solution.                                                        *)
(***************************************************************************)
Min(S) == CHOOSE x \in S : \A y \in S : x <= y

\* M: the rows of the augmented matrix (n unknowns, n + 1 entries a row);
\* piv: the pivot columns found so far; c: the column to look at.
RECURSIVE Rref(_, _, _, _)
Rref(M, piv, c, n) ==
    LET r == Len(piv) + 1
        Eliminate(sw, prow) ==
            [i \in 1..Len(M) |->
                IF i = r THEN prow
                ELSE IF RIsZero(sw[i][c]) THEN sw[i]
                ELSE [k \in 1..(n + 1) |->
                        RSub(sw[i][k], RMul(sw[i][c], prow[k]))]]
        Scale(sw) ==
            Eliminate(sw, [k \in 1..(n + 1) |-> RDiv(sw[r][k], sw[r][c])])
        Swap(p) == Scale([M EXCEPT ![r] = M[p], ![p] = M[r]])
        Pivot(cand) ==
            IF cand = {} THEN Rref(M, piv, c + 1, n)
            ELSE Rref(Swap(Min(cand)), Append(piv, c), c + 1, n)
    IN  IF c > n \/ Len(piv) = Len(M) THEN [m |-> M, piv |-> piv]
        ELSE Pivot({i \in r..Len(M) : ~RIsZero(M[i][c])})

gauss_jordan_solve(a, b) ==
    LET n == Len(a[1])
        Classify(red, rank) ==
            IF \E i \in (rank + 1)..Len(a) : ~RIsZero(red.m[i][n + 1])
            THEN [kind |-> "ValueError", solution |-> <<>>, params |-> 0]
            ELSE IF rank < n
            THEN [kind |-> "params", solution |-> <<>>, params |-> n - rank]
            ELSE [kind |-> "unique",
                  solution |-> [j \in 1..n |-> red.m[j][n + 1]],
                  params |-> 0]
        Reduced(red) == Classify(red, Len(red.piv))
    IN  Reduced(Rref([i \in 1..Len(a) |-> Append(a[i], b[i])], <<>>, 1, n))

(***************************************************************************)
(* ReactionCompleter (completer.py).                                       *)
(***************************************************************************)
target_min_nv == 2

\* _inspect_target with the comparison off by one; C5 does not hold of it.
inspect_target_off_by_one(target) ==
    IF Cardinality(nv_elements(target)) < target_min_nv - 1
    THEN "StupidRecipe" ELSE ""

\* _inspect_target.
inspect_target(target) ==
    IF Cardinality(nv_elements(target)) < target_min_nv
    THEN "StupidRecipe" ELSE ""

\* The loop of _prepare_precursors from precursor i on: the exception it
\* raises and the candidates it has appended.
RECURSIVE prepare_loop(_, _, _, _, _)
prepare_loop(precs, target, i, seen, candidates) ==
    IF i > Len(precs) THEN [exc |-> "", candidates |-> candidates]
    ELSE LET precursor == precs[i]
             seen2 == seen \cup {precs[i].material_formula}
         IN  IF precursor.material_formula \in seen
             THEN prepare_loop(precs, target, i + 1, seen, candidates)
             ELSE IF all_elements_dict(precursor) = all_elements_dict(target)
             THEN [exc |-> "StupidRecipe", candidates |-> candidates]
             ELSE IF all_elements(precursor) = {}
             THEN prepare_loop(precs, target, i + 1, seen2, candidates)
             ELSE IF nv_elements(precursor) \ nv_elements(target) # {}
             THEN prepare_loop(precs, target, i + 1, seen2, candidates)
             ELSE prepare_loop(precs, target, i + 1, seen2,
                               Append(candidates, precursor))

RECURSIVE MergeDecompose(_)
MergeDecompose(candidates) ==
    IF candidates = <<>> THEN NoChemicals
    ELSE Update(MergeDecompose(SubSeq(candidates, 1, Len(candidates) - 1)),
                decompose_chemicals(candidates[Len(candidates)]))

\* _prepare_precursors: the exception raised (with its message), the
\* candidates, the species.
prepare_precursors(precs, target) ==
    LET Covered(cands) == UNION {nv_elements(cands[i]) : i \in DOMAIN cands}
        Checked(loop, cands, msg) ==
            [exc |-> IF msg # "" THEN "StupidRecipe" ELSE "",
             msg |-> msg,
             precursor_candidates |-> cands,
             decomposition_chemicals |-> MergeDecompose(cands),
             exchange_chemicals |-> exchange_chemicals(target)]
        Prepared(loop, cands) ==
            Checked(loop, cands,
                    IF loop.exc # "" THEN "Precursor list contains target"
                    ELSE IF Len(cands) = 0 THEN "Precursor candidates is empty"
                    ELSE IF nv_elements(target) \ Covered(cands) # {}
                    THEN "Precursor candidates do not provide non volatile elements"
                    ELSE "")
        Looped(loop) == Prepared(loop, loop.candidates)
    IN  Looped(prepare_loop(precs, target, 1, {}, <<>>))

\* The species of the system in column order, each with its formula, its
\* element counts and its side tag.
Columns(prep) ==
    LET Species(names, chemicals, side) ==
            [i \in DOMAIN names |->
                [formula |-> names[i], elements |-> chemicals[names[i]],
                 side |-> side]]
    IN  [i \in DOMAIN prep.precursor_candidates |->
            [formula |-> prep.precursor_candidates[i].material_formula,
             elements |-> all_elements_dict(prep.precursor_candidates[i]),
             side |-> "fl"]]
        \o Species(SortedStrings(DOMAIN prep.decomposition_chemicals),
                   prep.decomposition_chemicals, "dr")
        \o Species(SortedStrings(DOMAIN prep.exchange_chemicals),
                   prep.exchange_chemicals, "dl")

\* _setup_linear_equation.
setup_linear_equation(prep, target) ==
    LET Equation(cols, els) ==
            [coefficient_matrix |->
                [i \in DOMAIN els |->
                    [j \in DOMAIN cols |-> Rat(Get(cols[j].elements, els[i]))]],
             target_vector |->
                [i \in DOMAIN els |->
                    Rat(Get(all_elements_dict(target), els[i]))],
             which_side |-> [j \in DOMAIN cols |-> cols[j].side],
             all_elements |-> els]
        Species(cols) ==
            Equation(cols,
                     SortedStrings(
                        UNION {DOMAIN cols[j].elements : j \in DOMAIN cols}
                        \cup all_elements(target)))
    IN  Species(Columns(prep))

\* ReactionCompleter.__init__: the exception that leaves it, with its
\* message, and the fields of the object.
ReactionCompleter(precs, target) ==
    LET Object(exc, msg, prep) ==
            [exc |-> exc,
             msg |-> msg,
             precursors |-> precs,
             target |-> target,
             prep |-> prep,
             linear_eq |->
                IF exc = "" THEN setup_linear_equation(prep, target)
                ELSE [coefficient_matrix |-> <<>>, target_vector |-> <<>>,
                      which_side |-> <<>>, all_elements |-> <<>>]]
        Prepared(e1, prep) ==
            Object(IF e1 # "" THEN e1 ELSE prep.exc,
                   IF e1 # "" THEN "Target must have more than 1 non volatile elements"
                   ELSE prep.msg,
                   prep)
    IN  Prepared(inspect_target(target), prepare_precursors(precs, target))

\* decide_side_value with the sides of a 'dr' species exchanged; C18 does
\* not hold of it.
decide_side_value_dr_exchanged(s, val) ==
    IF s = "fl" THEN <<"left", val>>
    ELSE IF s = "fr" THEN <<"right", RNeg(val)>>
    ELSE IF s = "dl"
    THEN (IF ~RIsNeg(val) THEN <<"left", val>> ELSE <<"right", RNeg(val)>>)
    ELSE (IF RIsNeg(val) THEN <<"left", RNeg(val)>> ELSE <<"right", val>>)

\* decide_side_value.
decide_side_value(s, val) ==
    IF s = "fl" THEN <<"left", val>>
    ELSE IF s = "fr" THEN <<"right", RNeg(val)>>
    ELSE IF s = "dl"
    THEN (IF ~RIsNeg(val) THEN <<"left", val>> ELSE <<"right", RNeg(val)>>)
    ELSE (IF RIsNeg(val) THEN <<"right", RNeg(val)>> ELSE <<"left", val>>)

\* Python: s[:k] and s[k:].
Take(s, k) == SubSeq(s, 1, IF k < Len(s) THEN k ELSE Len(s))
Drop(s, k) == SubSeq(s, (IF k < Len(s) THEN k ELSE Len(s)) + 1, Len(s))

\* zip(keys, amounts, sides) of _render_reaction, each entry decided and
\* printed.
Placed(keys, amounts, sides) ==
    LET Printed(key, side, pr) ==
            [side |-> side, key |-> key, exc |-> pr.exc, value_s |-> pr.value]
        Decided(key, sv) == Printed(key, sv[1], simplify_print(sv[2]))
    IN  [i \in 1..Min({Len(keys), Len(amounts), Len(sides)}) |->
            Decided(keys[i], decide_side_value(sides[i], amounts[i]))]

\* balanced[side][key] = value_s for the entries in order, "0" left out.
RECURSIVE Assign(_, _, _)
Assign(map, entries, side) ==
    LET Put(e) ==
            IF e.side = side /\ ~RIsZero(e.value_s)
            THEN Update(map, e.key :> e.value_s) ELSE map
    IN  IF entries = <<>> THEN map
        ELSE Assign(Put(Head(entries)), Tail(entries), side)

NoAmounts == [k \in {} |-> Rat(0)]

\* _render_reaction, with the which_side list it is given and the list it
\* leaves behind (the slices are deleted from the list itself).
render_reaction_amounts(c, which_side, solution) ==
    LET k == Len(c.prep.precursor_candidates)
        Balanced(entries, bad, rest) ==
            [exc |-> IF bad = {} THEN "" ELSE entries[Min(bad)].exc,
             left |-> Assign(NoAmounts, entries, "left"),
             right |-> Assign(c.target.material_formula :> Rat(1), entries,
                              "right"),
             which_side |-> rest]
        Zipped(entries, rest) ==
            Balanced(entries, {i \in DOMAIN entries : entries[i].exc # ""}, rest)
        Sliced(dec, exc, d, solution_k, which_side_k) ==
            Zipped(Placed([i \in 1..k |->
                            c.prep.precursor_candidates[i].material_formula],
                          Take(solution, k), Take(which_side, k))
                   \o Placed(dec, Take(solution_k, d), Take(which_side_k, d))
                   \o Placed(exc, Drop(solution_k, d), Drop(which_side_k, d)),
                   Drop(which_side_k, d))
        Sorted(dec, exc) ==
            Sliced(dec, exc, Len(dec), Drop(solution, k), Drop(which_side, k))
    IN  Sorted(SortedStrings(DOMAIN c.prep.decomposition_chemicals),
               SortedStrings(DOMAIN c.prep.exchange_chemicals))

\* compute_reactions.
compute_reactions(c, which_side) ==
    LET Solved(sol) ==
            IF sol.kind = "ValueError"
            THEN [exc |-> "TooFewPrecursors", left |-> NoAmounts,
                  right |-> NoAmounts, which_side |-> which_side]
            ELSE IF sol.kind = "params"
            THEN [exc |-> "TooManyPrecursors", left |-> NoAmounts,
                  right |-> NoAmounts, which_side |-> which_side]
            ELSE render_reaction_amounts(c, which_side, sol.solution)
    IN  Solved(gauss_jordan_solve(c.linear_eq.coefficient_matrix,
                                  c.linear_eq.target_vector))

(***************************************************************************)
(* render_reaction (formatting.py).  The string is modelled by its parts   *)
(* in the order they are printed.                                          *)
(***************************************************************************)
\* ' '.join(strings), as characters.
RECURSIVE JoinChars(_)
JoinChars(strings) ==
    IF strings = <<>> THEN <<>>
    ELSE IF Len(strings) = 1 THEN Chars(strings[1])
    ELSE Chars(strings[1]) \o <<" ">> \o JoinChars(Tail(strings))

\* ions_regex.findall, as a set: at each position the longest element
\* symbol that matches, else the character is skipped.
RECURSIVE FindIonsFrom(_, _)
FindIonsFrom(cs, i) ==
    LET Match(two, one) ==
            IF two # {} THEN two \cup FindIonsFrom(cs, i + 2)
            ELSE one \cup FindIonsFrom(cs, i + 1)
    IN  IF i > Len(cs) THEN {}
        ELSE Match({e \in ELEMENTS :
                        i + 1 <= Len(cs) /\ Chars(e) = <<cs[i], cs[i + 1]>>},
                   {e \in ELEMENTS : Chars(e) = <<cs[i]>>})

find_ions(cs) == FindIonsFrom(cs, 1)

\* sorted(reaction['left'].items()): the terms <<amount, formula>>.
Terms(amounts, keys) == [i \in DOMAIN keys |-> <<amounts[keys[i]], keys[i]>>]

LeftTerms(left) == Terms(left, SortedStrings(DOMAIN left))

\* The right side sorted by formula alone, the target where its formula
\* falls; C17 does not hold of it.
RightTerms_by_formula(right, target_formula) ==
    Terms(right, SortedStrings(DOMAIN right))

\* sorted(reaction['right'].items(), key = (formula != target, formula, amount)).
RightTerms(right, target_formula) ==
    Terms(right,
          (IF target_formula \in DOMAIN right THEN <<target_formula>> ELSE <<>>)
          \o SortedStrings(DOMAIN right \ {target_formula}))

\* The symbols that formatting.py names OMIT_IONS.
OMIT_IONS == {"O", "H", "N"}

\* Python: sorted(strings), for a list of strings.
RECURSIVE sorted(_)
sorted(strings) ==
    LET Least(i) ==
            <<strings[i]>> \o sorted(SubSeq(strings, 1, i - 1)
                                     \o SubSeq(strings, i + 1, Len(strings)))
    IN  IF strings = <<>> THEN <<>>
        ELSE Least(CHOOSE i \in DOMAIN strings :
                        /\ \A j \in DOMAIN strings :
                                ~StrLess(strings[j], strings[i])
                        /\ \A j \in 1..(i - 1) : strings[j] # strings[i])

\* The formulas listed after "via".
AdditivePrecursors(all_precursors, additives) ==
    LET Formulas(with) ==
            sorted([i \in DOMAIN with |-> with[i].material_formula])
        Sharing(additive_ions) ==
            LET Shared(mat_info) ==
                    /\ mat_info.exc = ""
                    /\ all_elements(mat_info) \cap additive_ions # {}
                Shares(p) ==
                    Shared(MaterialInformation(p.material_string,
                            p.material_formula, p.composition, NoSubstitution))
            IN  Formulas(SelectSeq(all_precursors, Shares))
    IN  Sharing(find_ions(JoinChars(additives)))

NoRendering ==
    [exc |-> "", left |-> <<>>, right |-> <<>>, subs |-> {},
     additives |-> <<>>, via |-> <<>>]

render_reaction(all_precursors, target, reaction, element_substitution) ==
    IF "additives" \notin target.keys
    THEN [NoRendering EXCEPT !.exc = "KeyError"]
    ELSE [exc |-> "",
          left |-> LeftTerms(reaction.left),
          right |-> RightTerms(reaction.right, target.material_formula),
          subs |-> element_substitution,
          additives |-> target.additives,
          via |-> IF target.additives # <<>>
                  THEN AdditivePrecursors(all_precursors, target.additives)
                  ELSE <<>>]

(***************************************************************************)
(* The driver (driver.py).                                                 *)
(***************************************************************************)
\* All orders in which a set can be iterated.
RECURSIVE Orders(_)
Orders(S) ==
    IF S = {} THEN {<<>>}
    ELSE UNION {{<<x>> \o o : o \in Orders(S \ {x})} : x \in S}

RECURSIVE Flatten(_)
Flatten(ss) == IF ss = <<>> THEN <<>> ELSE Head(ss) \o Flatten(Tail(ss))

\* Every placeholder of elements_vars taken, in the composition or not; C11
\* does not hold of it.
element_vars_declared(target) == DOMAIN target.elements_vars

\* The variants of one target, element_vars_used iterated in the given order.
element_vars_used(target) ==
    DOMAIN target.elements_vars \cap RawElements(target.composition)

TargetVariants(target, order) ==
    IF DOMAIN target.elements_vars # {} /\ element_vars_used(target) # {}
    THEN Flatten([i \in DOMAIN order |->
            [j \in DOMAIN target.elements_vars[order[i]] |->
                [target |-> target,
                 substitution |->
                    {<<order[i], target.elements_vars[order[i]][j]>>}]]])
    ELSE <<[target |-> target, substitution |-> NoSubstitution]>>

\* substitute_element_vars: the lists it can return (a set is iterated in
\* an order the language does not fix).
substitute_element_vars(ts) ==
    {Flatten([i \in DOMAIN ts |-> TargetVariants(ts[i], pick[i])]) :
        pick \in {p \in [DOMAIN ts -> UNION {Orders(element_vars_used(ts[i])) :
                                                i \in DOMAIN ts}] :
                    \A i \in DOMAIN ts : p[i] \in Orders(element_vars_used(ts[i]))}}

material_dict_to_info(material_dict, sub_dict) ==
    MaterialInformation(material_dict.material_string,
                        material_dict.material_formula,
                        material_dict.composition, sub_dict)

screen_good_precursors(ps) ==
    LET Good(p) == p.exc = ""
    IN  SelectSeq([i \in DOMAIN ps |-> material_dict_to_info(ps[i], NoSubstitution)],
                  Good)

NoTuple ==
    [target_formula |-> "", left |-> NoAmounts, right |-> NoAmounts,
     substitution |-> NoSubstitution, reaction_string |-> NoRendering]

\* try_balance: the exception that leaves it ("" when it returns), the
\* message of a StupidRecipe, and the tuple it returns.
try_balance(to_balance, target, substitution, all_precursors) ==
    LET Raised(exc) == [exc |-> exc, msg |-> "", tuple |-> NoTuple]
        Rendered(target_to_balance, solution, rendered) ==
            IF rendered.exc # "" THEN Raised(rendered.exc)
            ELSE [exc |-> "", msg |-> "",
                  tuple |-> [target_formula |-> target_to_balance.material_formula,
                             left |-> solution.left,
                             right |-> solution.right,
                             substitution |-> substitution,
                             reaction_string |-> rendered]]
        Computed(target_to_balance, solution) ==
            IF solution.exc # "" THEN Raised(solution.exc)
            ELSE Rendered(target_to_balance, solution,
                          render_reaction(all_precursors, target, solution,
                                          substitution))
        Completed(target_to_balance, completer) ==
            IF completer.exc # ""
            THEN [exc |-> completer.exc, msg |-> completer.msg, tuple |-> NoTuple]
            ELSE Computed(target_to_balance,
                          compute_reactions(completer,
                                            completer.linear_eq.which_side))
        Converted(target_to_balance) ==
            IF target_to_balance.exc # "" THEN Raised(target_to_balance.exc)
            ELSE Completed(target_to_balance,
                           ReactionCompleter(to_balance, target_to_balance))
    IN  Converted(material_dict_to_info(target, substitution))

Min3(a, b, c) == Min({a, b, c})

\* One row of the edit-distance table from the row before it.
RECURSIVE EdRow(_, _, _, _)
EdRow(prev, c, b, cur) ==
    LET Cell(j) == Min3(prev[j + 1] + 1, cur[j] + 1,
                        prev[j] + (IF c = b[j] THEN 0 ELSE 1))
    IN  IF Len(cur) = Len(b) + 1 THEN cur
        ELSE EdRow(prev, c, b, Append(cur, Cell(Len(cur))))

RECURSIVE EdRows(_, _, _)
EdRows(a, b, prev) ==
    IF a = <<>> THEN prev[Len(b) + 1]
    ELSE EdRows(Tail(a), b, EdRow(prev, Head(a), b, <<prev[1] + 1>>))

\* nltk's edit_distance (Levenshtein, substitution cost 1).
edit_distance(s1, s2) ==
    LET Distance(a, b) == EdRows(a, b, [j \in 1..(Len(b) + 1) |-> j - 1])
    IN  Distance(Chars(s1), Chars(s2))

\* re.match(r'^[\w\s()]+$', m.material_string).
IsWordOrd(o) ==
    \/ o \in 48..57 \/ o \in 65..90 \/ o \in 97..122
    \/ o \in {95, 32, 40, 41}

IsWordChar(c) == IsWordOrd(Ord(c))

is_word_material(m) ==
    LET Matches(cs) == cs # <<>> /\ \A i \in DOMAIN cs : IsWordChar(cs[i])
    IN  Matches(Chars(m.material_string))

no_conversion(x) ==
    2 * edit_distance(x.material_formula, x.material_string)
        < StrLen(x.material_string)

\* The first loop of find_precursors_in_same_sentence, for one sentence.
FormulaSubsets(to_balance, sentence) ==
    LET InSentence(p) == StrIn(p.material_formula, sentence)
        Appended(candidates, candidates_no_conversion) ==
            (IF candidates # <<>> THEN <<candidates>> ELSE <<>>)
            \o (IF candidates_no_conversion # <<>>
                THEN <<candidates_no_conversion>> ELSE <<>>)
        Found(candidates) ==
            Appended(candidates, SelectSeq(candidates, no_conversion))
    IN  Found(SelectSeq(to_balance, InSentence))

\* candidates_no_words: per chemistry, in the order the chemistries first
\* occur, the materials that are no plain words (all when none is left).
NoWords(candidates) ==
    LET NotWord(p) == ~is_word_material(p)
        Kept(materials, kept) ==
            IF Len(materials) > 1 /\ kept # <<>> THEN kept ELSE materials
        Filtered(materials) == Kept(materials, SelectSeq(materials, NotWord))
        Group(i) ==
            LET Same(p) == all_elements(p) = all_elements(candidates[i])
            IN  Filtered(SelectSeq(candidates, Same))
        Grouped(order) == Flatten([k \in DOMAIN order |-> Group(order[k])])
    IN  Grouped(SetToSortedIdx(
            {i \in DOMAIN candidates :
                \A j \in 1..(i - 1) :
                    all_elements(candidates[j]) # all_elements(candidates[i])}))

\* The second loop with the string-match subset before its
\* edit-distance-filtered variant; C24 does not hold of it.
StringSubsets_subset_first(to_balance, sentence) ==
    LET InSentence(p) == StrIn(p.material_string, sentence)
        Appended(candidates, candidates_no_conversion) ==
            (IF candidates # <<>> THEN <<candidates>> ELSE <<>>)
            \o (IF candidates_no_conversion # <<>>
                THEN <<candidates_no_conversion>> ELSE <<>>)
            \o (IF candidates # <<>> THEN <<NoWords(candidates)>> ELSE <<>>)
        Found(candidates) ==
            Appended(candidates, SelectSeq(candidates, no_conversion))
    IN  Found(SelectSeq(to_balance, InSentence))

\* The second loop, for one sentence.
StringSubsets(to_balance, sentence) ==
    LET InSentence(p) == StrIn(p.material_string, sentence)
        Appended(candidates, candidates_no_conversion) ==
            (IF candidates_no_conversion # <<>>
             THEN <<candidates_no_conversion>> ELSE <<>>)
            \o (IF candidates # <<>>
                THEN <<candidates, NoWords(candidates)>> ELSE <<>>)
        Found(candidates) ==
            Appended(candidates, SelectSeq(candidates, no_conversion))
    IN  Found(SelectSeq(to_balance, InSentence))

find_precursors_in_same_sentence(to_balance, ss) ==
    Flatten([i \in DOMAIN ss |-> FormulaSubsets(to_balance, ss[i])])
    \o Flatten([i \in DOMAIN ss |-> StringSubsets(to_balance, ss[i])])

(***************************************************************************)
(* The recipes of the model: precursor and target dicts as the caller      *)
(* passes them.  keys holds the optional keys a target dict has.           *)
(***************************************************************************)
Component(amount, elements) == [amount |-> amount, elements |-> elements]

Precursor(formula, string, elements) ==
    [material_formula |-> formula, material_string |-> string,
     composition |-> <<Component(1, elements)>>]

Target(formula, elements, keys, elements_vars, additives) ==
    [material_formula |-> formula, material_string |-> formula,
     composition |-> <<Component(1, elements)>>, keys |-> keys,
     elements_vars |-> elements_vars, additives |-> additives]

NoVars == [k \in {} |-> <<>>]
BothKeys == {"elements_vars", "additives"}

PrecursorCatalogue ==
    {Precursor("BaCO3", "BaCO3", ("Ba" :> 1) @@ ("C" :> 1) @@ ("O" :> 3)),
     Precursor("TiO2", "TiO2", ("Ti" :> 1) @@ ("O" :> 2)),
     \* written "B3T" in the text
     Precursor("Ba3TiO5", "B3T", ("Ba" :> 3) @@ ("Ti" :> 1) @@ ("O" :> 5)),
     \* a solvent, extracted with the formula of another precursor
     Precursor("TiO2", "EtOH", ("C" :> 2) @@ ("H" :> 6) @@ ("O" :> 1)),
     \* the composition of BaTiO3 under the formula of another precursor
     Precursor("BaCO3", "BaTiO3", ("Ba" :> 1) @@ ("Ti" :> 1) @@ ("O" :> 3)),
     \* no chemical element
     Precursor("XO", "XO", ("Xx" :> 1) @@ ("O" :> 1)),
     \* a name whose composition was not extracted, under the formula of
     \* another precursor
     Precursor("TiO2", "titania", EmptyDict),
     \* water, named among the precursors
     Precursor("H2O", "H2O", ("H" :> 2) @@ ("O" :> 1)),
     \* a metal and the atoms of one water molecule in one component
     Precursor("BaH2O", "BaH2O", ("Ba" :> 1) @@ ("H" :> 2) @@ ("O" :> 1))}

TargetCatalogue ==
    {Target("BaTiO3", ("Ba" :> 1) @@ ("Ti" :> 1) @@ ("O" :> 3),
            BothKeys, NoVars, <<>>),
     \* a placeholder on the anion site, doped with Ti4+
     Target("BaTiO2A", ("Ba" :> 1) @@ ("Ti" :> 1) @@ ("O" :> 2) @@ ("A" :> 1),
            BothKeys, "A" :> <<"O", "C">>, <<"Ti4+">>),
     \* a placeholder whose last value is no element
     Target("BaAO3", ("Ba" :> 1) @@ ("A" :> 1) @@ ("O" :> 3),
            BothKeys, "A" :> <<"Ba", "Sr", "Ln">>, <<>>),
     \* no 'additives' key
     Target("BaTiO2A", ("Ba" :> 1) @@ ("Ti" :> 1) @@ ("O" :> 2) @@ ("A" :> 1),
            {"elements_vars"}, "A" :> <<"O", "C">>, <<>>),
     \* a target whose formula string is that of a byproduct
     Target("CO2", ("Ba" :> 2) @@ ("Ti" :> 2) @@ ("O" :> 6),
            BothKeys, NoVars, <<>>),
     \* a placeholder that is not in the composition
     Target("BaTiO3", ("Ba" :> 1) @@ ("Ti" :> 1) @@ ("O" :> 3),
            BothKeys, "A" :> <<"Sr">>, <<>>),
     \* two placeholders that are element symbols, one value each, and a
     \* placeholder that is not in the composition
     Target("TiBaCO2", ("Ba" :> 1) @@ ("Ti" :> 1) @@ ("C" :> 1) @@ ("O" :> 2),
            BothKeys,
            ("C" :> <<"O">>) @@ ("O" :> <<"O">>) @@ ("A" :> <<"Sr">>), <<>>),
     \* no 'elements_vars' key
     Target("BaTiO3", ("Ba" :> 1) @@ ("Ti" :> 1) @@ ("O" :> 3),
            {"additives"}, NoVars, <<>>),
     \* doped with Ti4+ and hydroxide
     Target("BaTiO3", ("Ba" :> 1) @@ ("Ti" :> 1) @@ ("O" :> 3),
            BothKeys, NoVars, <<"Ti4+", "[OH-]">>)}

SentenceLists == {<<>>, <<"B3T TiO2">>, <<"B3T TiO2", "BaCO3 TiO2">>}

\* The lists of at most n different members of S.
RECURSIVE ListsOf(_, _)
ListsOf(S, n) ==
    IF n = 0 THEN {<<>>}
    ELSE {<<>>} \cup
         UNION {{<<x>> \o l : l \in ListsOf(S \ {x}, n - 1)} : x \in S}

(***************************************************************************)
(* balance_recipe as a state machine.                                      *)
(***************************************************************************)
Init ==
    /\ numfmt \in {"float", "int"}
    /\ precursors \in ListsOf(PrecursorCatalogue, MaxPrecursors) \ {<<>>}
    /\ targets \in ListsOf(TargetCatalogue, MaxTargets) \ {<<>>}
    /\ sentences \in SentenceLists
    /\ pc = "start"
    /\ targets_to_balance = <<>>
    /\ precursors_to_balance = <<>>
    /\ vi = 0
    /\ solutions = <<>>
    /\ precursor_candidates = <<>>
    /\ ci = 0
    /\ raised = ""
    /\ log = <<>>

Inputs == <<numfmt, precursors, targets, sentences>>

\* The loop goes on to the next variant.
Continue ==
    /\ pc' = "variant"
    /\ vi' = vi + 1
    /\ precursor_candidates' = <<>>
    /\ ci' = 0
    /\ raised' = ""

\* An exception leaves balance_recipe.
Raise(exc) ==
    /\ pc' = "raised"
    /\ raised' = exc
    /\ UNCHANGED <<vi, precursor_candidates, ci>>

Logged(stage, to_balance, r) ==
    log' = Append(log, [variant |-> vi, stage |-> stage, index |-> ci,
                        to_balance |-> to_balance, exc |-> r.exc,
                        msg |-> r.msg, tuple |-> r.tuple])

\* Lines 248-251: substitute_element_vars and screen_good_precursors.
Start ==
    /\ pc = "start"
    /\ IF \E i \in DOMAIN targets : "elements_vars" \notin targets[i].keys
       THEN /\ Raise("KeyError")
            /\ UNCHANGED <<targets_to_balance, precursors_to_balance>>
       ELSE /\ targets_to_balance' \in substitute_element_vars(targets)
            /\ precursors_to_balance' = screen_good_precursors(precursors)
            /\ pc' = "variant"
            /\ vi' = 1
            /\ UNCHANGED <<precursor_candidates, ci, raised>>
    /\ UNCHANGED <<Inputs, solutions, log>>

\* Lines 254-260: the next variant's target is converted.
Convert ==
    /\ pc = "variant"
    /\ vi <= Len(targets_to_balance)
    /\ LET Converted(target_object) ==
               IF target_object.exc = "FormulaException" THEN Continue
               ELSE IF target_object.exc # "" THEN Raise(target_object.exc)
               ELSE /\ pc' = "first"
                    /\ UNCHANGED <<vi, precursor_candidates, ci, raised>>
       IN  Converted(material_dict_to_info(targets_to_balance[vi].target,
                                           targets_to_balance[vi].substitution))
    /\ UNCHANGED <<Inputs, targets_to_balance, precursors_to_balance,
                   solutions, log>>

\* The tuple put in front of the list instead; C7 does not hold of it.
prepended(sols, r) == IF r.exc = "" THEN <<r.tuple>> \o sols ELSE sols

\* solutions.append(solution), when try_balance returned.
appended(sols, r) == IF r.exc = "" THEN Append(sols, r.tuple) ELSE sols

\* The retry with every screened precursor; C10 does not hold of it.
non_hco_unfiltered(to_balance) == to_balance

\* Line 266: list(filter(lambda x: not x.is_hco, precursors_to_balance)).
non_hco(to_balance) ==
    LET NotHco(x) == ~is_hco(x)
    IN  SelectSeq(to_balance, NotHco)

\* The candidate loop without its break; C9 does not hold of it.
candidate_outcome_no_break(r) ==
    IF r.exc # "" /\ ~IsCannotBalance(r.exc) THEN Raise(r.exc)
    ELSE IF ci < Len(precursor_candidates)
    THEN /\ ci' = ci + 1
         /\ UNCHANGED <<pc, vi, precursor_candidates, raised>>
    ELSE Continue

\* Lines 290-303: what the candidate loop does with the outcome of one
\* candidate.
candidate_outcome(r) ==
    IF r.exc = "" THEN Continue
    ELSE IF ~IsCannotBalance(r.exc) THEN Raise(r.exc)
    ELSE IF ci < Len(precursor_candidates)
    THEN /\ ci' = ci + 1
         /\ UNCHANGED <<pc, vi, precursor_candidates, raised>>
    ELSE Continue

\* Lines 262-265, 276-282 and 306-313: the attempt with all screened
\* precursors and the except clause that takes its exception.
FirstAttempt ==
    /\ pc = "first"
    /\ LET TooMany(cands) ==
               IF cands # <<>>
               THEN /\ pc' = "candidates"
                    /\ precursor_candidates' = cands
                    /\ ci' = 1
                    /\ UNCHANGED <<vi, raised>>
               ELSE Continue
           Tried(r) ==
               /\ Logged("first", precursors_to_balance, r)
               /\ solutions' = appended(solutions, r)
               /\ IF r.exc = "TooFewPrecursors"
                  THEN /\ pc' = "retry"
                       /\ UNCHANGED <<vi, precursor_candidates, ci, raised>>
                  ELSE IF r.exc = "TooManyPrecursors"
                  THEN TooMany(find_precursors_in_same_sentence(
                                    precursors_to_balance, sentences))
                  ELSE Continue
       IN  Tried(try_balance(precursors_to_balance,
                             targets_to_balance[vi].target,
                             targets_to_balance[vi].substitution, precursors))
    /\ UNCHANGED <<Inputs, targets_to_balance, precursors_to_balance>>

\* Lines 266-275: the handler of TooFewPrecursors.
NonOrganicRetry ==
    /\ pc = "retry"
    /\ LET Tried(subset, r) ==
               /\ Logged("retry", subset, r)
               /\ solutions' = appended(solutions, r)
               /\ IF r.exc = "" \/ IsCannotBalance(r.exc) THEN Continue
                  ELSE Raise(r.exc)
           Retry(subset) ==
               Tried(subset,
                     try_balance(subset, targets_to_balance[vi].target,
                                 targets_to_balance[vi].substitution, precursors))
       IN  Retry(non_hco(precursors_to_balance))
    /\ UNCHANGED <<Inputs, targets_to_balance, precursors_to_balance>>

\* Lines 287-304: one turn of the loop over the candidate subsets.
CandidateAttempt ==
    /\ pc = "candidates"
    /\ LET Tried(r) ==
               /\ Logged("candidate", precursor_candidates[ci], r)
               /\ solutions' = appended(solutions, r)
               /\ candidate_outcome(r)
       IN  Tried(try_balance(precursor_candidates[ci],
                             targets_to_balance[vi].target,
                             targets_to_balance[vi].substitution, precursors))
    /\ UNCHANGED <<Inputs, targets_to_balance, precursors_to_balance>>

\* Line 314: return solutions.
Return ==
    /\ pc = "variant"
    /\ vi > Len(targets_to_balance)
    /\ pc' = "done"
    /\ UNCHANGED <<Inputs, targets_to_balance, precursors_to_balance, vi,
                   solutions, precursor_candidates, ci, raised, log>>

Next ==
    \/ Start
    \/ Convert
    \/ FirstAttempt
    \/ NonOrganicRetry
    \/ CandidateAttempt
    \/ Return

Spec == Init /\ [][Next]_vars

(***************************************************************************)
(* Properties of balance_recipe.  log holds one entry per try_balance      *)
(* call; the properties are read off it and off the state.                 *)
(***************************************************************************)
\* The converted target of the variant a log entry belongs to.
TargetOf(e) ==
    material_dict_to_info(targets_to_balance[e.variant].target,
                          targets_to_balance[e.variant].substitution)

\* The variant of log entry i is over: the loop is past it.
Finished(i) == pc # "raised" /\ (pc = "done" \/ vi > log[i].variant)

\* The entries of the attempts that returned, and the tuples they returned.
Successes ==
    LET Returned(e) == e.exc = ""
    IN  SelectSeq(log, Returned)

Emitted == solutions = [i \in DOMAIN Successes |-> Successes[i].tuple]

\* The first species of the system printed under formula k.
CountsOf(cols, k) ==
    cols[Min({j \in DOMAIN cols : cols[j].formula = k})].elements

\* The total of element E over the terms of one side: amount times count.
RECURSIVE SideTotal(_, _, _, _)
SideTotal(amounts, counts, E, keys) ==
    LET Term(k) == RMul(amounts[k], Rat(Get(counts[k], E)))
        Rest(k) == RAdd(Term(k), SideTotal(amounts, counts, E, keys \ {k}))
    IN  IF keys = {} THEN Rat(0) ELSE Rest(CHOOSE k \in keys : TRUE)

\* The printed reaction of a returned attempt conserves every element.
Conserved(e) ==
    LET Balanced(target, cols) ==
            \A E \in ELEMENTS \cup {"e-"} :
                SideTotal(e.tuple.left,
                          [k \in DOMAIN e.tuple.left |-> CountsOf(cols, k)],
                          E, DOMAIN e.tuple.left)
                = SideTotal(e.tuple.right,
                            [k \in DOMAIN e.tuple.right |->
                                IF k = target.material_formula
                                THEN all_elements_dict(target)
                                ELSE CountsOf(cols, k)],
                            E, DOMAIN e.tuple.right)
        Species(target) ==
            Balanced(target, Columns(prepare_precursors(e.to_balance, target)))
    IN  Species(TargetOf(e))

\* C1: atomic conservation.  In every tuple balance_recipe has appended, for
\* every element E (the charge 'e-' included) the printed left-side
\* coefficients times the counts of E add up to the printed right-side
\* coefficients times the counts of E, the target counted under its formula
\* with its composition after substitution.
C1_AtomicConservation ==
    \A i \in DOMAIN log : log[i].exc = "" => Conserved(log[i])

\* C2: non-negativity.  Every coefficient printed in the left or the right
\* map of a returned reaction is non-negative.
C2_NonNegativity ==
    \A i \in DOMAIN solutions :
        /\ \A k \in DOMAIN solutions[i].left : ~RIsNeg(solutions[i].left[k])
        /\ \A k \in DOMAIN solutions[i].right : ~RIsNeg(solutions[i].right[k])

\* C3: target pinning.  The right map of every returned reaction holds the
\* target's material_formula with the coefficient "1".
C3_TargetPinning ==
    \A i \in DOMAIN solutions :
        /\ solutions[i].target_formula \in DOMAIN solutions[i].right
        /\ solutions[i].right[solutions[i].target_formula] = Rat(1)

\* The outcome of compute_reactions on a constructed balancer is the one the
\* class of the linear system asks for.
Classified(c) ==
    LET Outcome(kind, reaction) ==
            /\ kind = "params" => reaction.exc = "TooManyPrecursors"
            /\ kind = "ValueError" => reaction.exc = "TooFewPrecursors"
            /\ kind = "unique" => reaction.exc = ""
    IN  Outcome(gauss_jordan_solve(c.linear_eq.coefficient_matrix,
                                   c.linear_eq.target_vector).kind,
                compute_reactions(c, c.linear_eq.which_side))

\* C4: solution classification.  For every balancer balance_recipe has
\* constructed, compute_reactions raises TooManyPrecursors when the system
\* has a free parameter, TooFewPrecursors when it is inconsistent, and
\* returns a reaction when the solution is unique: nothing else happens.
C4_SolutionClassification ==
    \A i \in DOMAIN log :
        LET Constructed(c) == c.exc = "" => Classified(c)
        IN  Constructed(ReactionCompleter(log[i].to_balance, TargetOf(log[i])))

\* The precursors of a list that survive the filtering of the balancer:
\* the first of its material_formula, not empty, no non-volatile element
\* the target does not have.
Survivors(to_balance, target) ==
    {j \in DOMAIN to_balance :
        /\ \A h \in 1..(j - 1) :
                to_balance[h].material_formula # to_balance[j].material_formula
        /\ DOMAIN to_balance[j].non_volatile_elements
                \cup DOMAIN to_balance[j].other_elements # {}
        /\ DOMAIN to_balance[j].non_volatile_elements
                \subseteq DOMAIN target.non_volatile_elements}

Rejected(i, target) ==
    LET e == log[i]
        few == Cardinality(DOMAIN target.non_volatile_elements) < target_min_nv
        NoCover(surv) ==
            \/ surv = {}
            \/ ~(DOMAIN target.non_volatile_elements \subseteq
                    UNION {DOMAIN e.to_balance[j].non_volatile_elements : j \in surv})
    IN  /\ (few \/ NoCover(Survivors(e.to_balance, target))) =>
                /\ e.exc = "StupidRecipe"
                /\ e.tuple = NoTuple
                /\ e.stage = "first" =>
                        \A h \in DOMAIN log : h # i => log[h].variant # e.variant
        /\ few => e.msg = "Target must have more than 1 non volatile elements"

\* C5: structural rejection.  An attempt whose target has fewer than
\* target_min_nv non-volatile elements, whose precursors all fall to the
\* filtering, or whose surviving precursors do not cover the target's
\* non-volatile elements ends with StupidRecipe and no tuple (and, being the
\* first attempt, ends the variant); with too few non-volatile elements it
\* is the target check that raises, whatever the precursors are.
C5_StructuralRejection ==
    \A i \in DOMAIN log : Rejected(i, TargetOf(log[i]))

\* C5, witness: a variant rejected by the target check although none of
\* its precursors survives, and a variant rejected because none survives.
C5_Witness ==
    /\ \E i \in DOMAIN log :
        /\ log[i].msg = "Target must have more than 1 non volatile elements"
        /\ Survivors(log[i].to_balance, TargetOf(log[i])) = {}
    /\ \E i \in DOMAIN log :
        /\ log[i].exc = "StupidRecipe"
        /\ log[i].msg = "Precursor candidates is empty"
        /\ log[i].tuple = NoTuple

\* C6: precursor equals target.  An attempt whose precursor list holds a
\* precursor with the element-quantity map of the target ends with
\* StupidRecipe, wherever the precursor stands in the list.
C6_PrecursorEqualsTarget ==
    \A i \in DOMAIN log :
        LET Holds(e, target) ==
                (\E j \in DOMAIN e.to_balance :
                    all_elements_dict(e.to_balance[j]) = all_elements_dict(target))
                => e.exc = "StupidRecipe"
        IN  Holds(log[i], TargetOf(log[i]))

\* C7: driver output shape.  solutions holds the tuples of the attempts
\* that returned, in the order of the attempts; no variant has two of
\* them and they stand in the order of the variants; each tuple carries the
\* material_formula and the substitution of its variant, the two maps and
\* the rendering of those maps.
C7_OutputShape ==
    /\ Emitted
    /\ \A i, j \in DOMAIN Successes :
            i < j => Successes[i].variant < Successes[j].variant
    /\ \A i \in DOMAIN Successes :
        LET Shaped(v, t) ==
                /\ t.target_formula = v.target.material_formula
                /\ t.substitution = v.substitution
                /\ {t.reaction_string.left[k][2] :
                        k \in DOMAIN t.reaction_string.left} = DOMAIN t.left
                /\ {t.reaction_string.right[k][2] :
                        k \in DOMAIN t.reaction_string.right} = DOMAIN t.right
                /\ \A k \in DOMAIN t.reaction_string.left :
                        t.reaction_string.left[k][1]
                            = t.left[t.reaction_string.left[k][2]]
                /\ \A k \in DOMAIN t.reaction_string.right :
                        t.reaction_string.right[k][1]
                            = t.right[t.reaction_string.right[k][2]]
        IN  Shaped(targets_to_balance[Successes[i].variant], solutions[i])

\* C7, witness: balance_recipe has returned two tuples, of two variants,
\* the second after a fallback.
C7_Witness ==
    /\ pc = "done"
    /\ Len(solutions) = 2
    /\ solutions[1].substitution # solutions[2].substitution
    /\ \E i \in DOMAIN log : log[i].exc # ""

\* C8: unexpected exceptions do not abort the batch.  No exception raised
\* while a variant is processed leaves balance_recipe.
C8_BatchNotAborted == pc = "raised" => vi = 0

\* C9: TooManyPrecursors fallback.  The candidate subsets are tried after a
\* first attempt that raised TooManyPrecursors, in the order of
\* find_precursors_in_same_sentence, each after the failure of the one
\* before it; the tuple of a candidate that balances is appended and the
\* variant ends there; with no candidates, or all of them failing, the
\* variant ends without a tuple.
C9_TooManyFallback ==
    LET Ordered(cands) ==
            /\ \A i \in DOMAIN log :
                log[i].stage = "candidate" =>
                    /\ i > 1
                    /\ log[i - 1].variant = log[i].variant
                    /\ log[i].index \in DOMAIN cands
                    /\ log[i].to_balance = cands[log[i].index]
                    /\ IF log[i].index = 1
                       THEN /\ log[i - 1].stage = "first"
                            /\ log[i - 1].exc = "TooManyPrecursors"
                       ELSE /\ log[i - 1].stage = "candidate"
                            /\ log[i - 1].index = log[i].index - 1
                            /\ log[i - 1].exc \in CannotBalanceTypes
            /\ \A i \in DOMAIN log :
                (/\ log[i].stage = "first"
                 /\ log[i].exc = "TooManyPrecursors"
                 /\ Finished(i)) =>
                    LET last == CHOOSE h \in DOMAIN log :
                                    /\ log[h].variant = log[i].variant
                                    /\ \A g \in DOMAIN log :
                                        log[g].variant = log[i].variant => g <= h
                    IN  IF cands = <<>> THEN last = i
                        ELSE /\ log[last].stage = "candidate"
                             /\ \/ log[last].exc = ""
                                \/ /\ log[last].exc \in CannotBalanceTypes
                                   /\ log[last].index = Len(cands)
    IN  /\ Emitted
        /\ Ordered(find_precursors_in_same_sentence(precursors_to_balance,
                                                    sentences))

\* C9, witness: a variant is over whose third candidate balanced after two
\* that failed, with candidates left that were not tried.
C9_Witness ==
    \E i \in DOMAIN log :
        /\ log[i].stage = "candidate"
        /\ log[i].exc = ""
        /\ log[i].index > 2
        /\ log[i].index < Len(find_precursors_in_same_sentence(
                                precursors_to_balance, sentences))
        /\ Finished(i)
        /\ i = Len(log)
        /\ solutions # <<>>

\* C10: TooFewPrecursors fallback.  A first attempt that raised
\* TooFewPrecursors is followed by one retry, with the screened precursors
\* whose elements are not exactly C, H and O, in their order; the tuple of
\* a retry that balances is appended, and whatever the retry ends with no
\* other attempt is made for the variant.
C10_TooFewFallback ==
    LET Inorganic(x) ==
            DOMAIN x.non_volatile_elements \cup DOMAIN x.other_elements
                # {"C", "H", "O"}
    IN  /\ Emitted
        /\ \A i \in DOMAIN log :
            log[i].stage = "retry" =>
                /\ i > 1
                /\ log[i - 1].stage = "first"
                /\ log[i - 1].variant = log[i].variant
                /\ log[i - 1].exc = "TooFewPrecursors"
                /\ log[i].to_balance = SelectSeq(precursors_to_balance, Inorganic)
                /\ i < Len(log) => log[i + 1].variant > log[i].variant
        /\ \A i \in DOMAIN log :
            (log[i].stage = "first" /\ log[i].exc = "TooFewPrecursors") =>
                /\ i = Len(log) => pc = "retry"
                /\ i < Len(log) =>
                        /\ log[i + 1].stage = "retry"
                        /\ log[i + 1].variant = log[i].variant

\* C10, witness: balance_recipe has returned; the retry of one variant,
\* without a solvent, balanced, and the retry of the next variant failed.
C10_Witness ==
    /\ pc = "done"
    /\ Len(solutions) = 1
    /\ \E i \in DOMAIN log :
        /\ log[i].stage = "retry"
        /\ log[i].exc = ""
        /\ Len(log[i].to_balance) < Len(precursors_to_balance)
    /\ \E i \in DOMAIN log :
        /\ log[i].stage = "retry"
        /\ log[i].exc \in CannotBalanceTypes

\* The placeholders of a target dict that occur in one of its composition
\* records, the variants the target asks for and their number.
Placeholders(t) ==
    {p \in DOMAIN t.elements_vars :
        \E c \in DOMAIN t.composition : p \in DOMAIN t.composition[c].elements}

VariantsOf(t) ==
    IF Placeholders(t) = {}
    THEN {[target |-> t, substitution |-> NoSubstitution]}
    ELSE UNION {{[target |-> t,
                  substitution |-> {<<p, t.elements_vars[p][j]>>}] :
                    j \in DOMAIN t.elements_vars[p]} : p \in Placeholders(t)}

NVariants(t) ==
    IF Placeholders(t) = {} THEN 1
    ELSE SumFn([p \in Placeholders(t) |-> Len(t.elements_vars[p])],
               Placeholders(t))

\* C11: substitution expansion.  The list substitute_element_vars returned
\* holds, for every target with placeholders in its composition, one
\* variant {placeholder: value} per value of each such placeholder, for
\* every other target one variant without a substitution, and nothing
\* else; no placeholder that is not in the composition is in a variant.
C11_SubstitutionExpansion ==
    vi > 0 =>
        /\ Len(targets_to_balance)
            = SumFn([i \in DOMAIN targets |-> NVariants(targets[i])],
                    DOMAIN targets)
        /\ \A i \in DOMAIN targets : \A v \in VariantsOf(targets[i]) :
                \E k \in DOMAIN targets_to_balance : targets_to_balance[k] = v
        /\ \A k \in DOMAIN targets_to_balance :
                \E i \in DOMAIN targets :
                    targets_to_balance[k] \in VariantsOf(targets[i])

\* C11, witness: the variants of a target with two placeholders in its
\* composition and one that is not have been enumerated.
C11_Witness ==
    /\ vi > 0
    /\ Len(targets_to_balance) = 2
    /\ \E i \in DOMAIN targets :
        /\ Cardinality(Placeholders(targets[i])) = 2
        /\ DOMAIN targets[i].elements_vars # Placeholders(targets[i])

\* Two materials with the same outcome of construction and the same
\* element quantities.
Equivalent(a, b) ==
    /\ a.exc = b.exc
    /\ a.non_volatile_elements = b.non_volatile_elements
    /\ a.other_elements = b.other_elements

\* C12: idempotence of substitution expansion.  A target whose elements_vars
\* gives every placeholder one value has exactly one variant in the list
\* substitute_element_vars returned, and the material of that variant is
\* the target with the placeholders of its composition replaced by their
\* values.
C12_ExpansionIdempotent ==
    vi > 0 =>
        \A i \in DOMAIN targets :
            (\A p \in DOMAIN targets[i].elements_vars :
                Len(targets[i].elements_vars[p]) = 1) =>
                LET Single(t, of) ==
                        /\ Cardinality(of) = 1
                        /\ \A k \in of :
                            Equivalent(
                                material_dict_to_info(
                                    t, targets_to_balance[k].substitution),
                                material_dict_to_info(
                                    t, {<<p, t.elements_vars[p][1]>> :
                                            p \in Placeholders(t)}))
                IN  Single(targets[i],
                           {k \in DOMAIN targets_to_balance :
                                targets_to_balance[k].target = targets[i]})

\* A variant whose composition, after its substitution, has an element
\* symbol that is not a chemical element.
BadVariant(v) ==
    \E k \in RawElements(v.target.composition) :
        Substituted(v.substitution, k) \notin ELEMENTS

\* C13: formula errors skip only the offending material.  The screened
\* precursors are the input precursors that can be constructed, in their
\* order; a variant that after substitution has a symbol outside ELEMENTS
\* is skipped without an attempt, and the loop goes on to the next variant.
C13_FormulaErrorsSkip ==
    vi > 0 =>
        /\ \E kept \in SUBSET DOMAIN precursors :
            /\ kept = {j \in DOMAIN precursors :
                        \A c \in DOMAIN precursors[j].composition :
                            DOMAIN precursors[j].composition[c].elements
                                \subseteq ELEMENTS}
            /\ Len(precursors_to_balance) = Cardinality(kept)
            /\ \A j \in kept :
                LET Place(n) ==
                        /\ precursors_to_balance[n].material_string
                            = precursors[j].material_string
                        /\ precursors_to_balance[n].material_formula
                            = precursors[j].material_formula
                IN  Place(Cardinality({h \in kept : h <= j}))
        /\ \A k \in DOMAIN targets_to_balance :
            BadVariant(targets_to_balance[k]) =>
                /\ \A i \in DOMAIN log : log[i].variant # k
                /\ vi = k => pc = "variant"

(***************************************************************************)
(* balance_recipe as a function of its arguments: the exception that       *)
(* leaves it ("" when it returns) and the list it returns.  variants is    *)
(* the list substitute_element_vars returned.                              *)
(***************************************************************************)
NoSolutions == [exc |-> "", solutions |-> <<>>]

Escaped(exc) == [exc |-> exc, solutions |-> <<>>]

\* Lines 287-298: the candidates from the i-th on, up to the first that
\* balances.
RECURSIVE first_success(_, _, _, _)
first_success(cands, i, variant, all_precursors) ==
    LET Tried(r) ==
            IF r.exc = "" THEN [exc |-> "", solutions |-> <<r.tuple>>]
            ELSE IF ~IsCannotBalance(r.exc) THEN Escaped(r.exc)
            ELSE first_success(cands, i + 1, variant, all_precursors)
    IN  IF i > Len(cands) THEN NoSolutions
        ELSE Tried(try_balance(cands[i], variant.target,
                               variant.substitution, all_precursors))

\* Lines 255-313: the body of the loop for one variant.
balance_variant(to_balance, variant, all_precursors, ss) ==
    LET Retried(r) ==
            IF r.exc = "" THEN [exc |-> "", solutions |-> <<r.tuple>>]
            ELSE IF IsCannotBalance(r.exc) THEN NoSolutions
            ELSE Escaped(r.exc)
        First(r) ==
            IF r.exc = "" THEN [exc |-> "", solutions |-> <<r.tuple>>]
            ELSE IF r.exc = "TooFewPrecursors"
            THEN Retried(try_balance(non_hco(to_balance), variant.target,
                                     variant.substitution, all_precursors))
            ELSE IF r.exc = "TooManyPrecursors"
            THEN first_success(find_precursors_in_same_sentence(to_balance, ss),
                               1, variant, all_precursors)
            ELSE NoSolutions
        Converted(target_object) ==
            IF target_object.exc = "FormulaException" THEN NoSolutions
            ELSE IF target_object.exc # "" THEN Escaped(target_object.exc)
            ELSE First(try_balance(to_balance, variant.target,
                                   variant.substitution, all_precursors))
    IN  Converted(material_dict_to_info(variant.target, variant.substitution))

\* Lines 253-314: the loop over the variants from the i-th on.
RECURSIVE balance_variants(_, _, _, _, _)
balance_variants(to_balance, variants, i, all_precursors, ss) ==
    LET Joined(v, rest) ==
            IF rest.exc # "" THEN rest
            ELSE [exc |-> "", solutions |-> v.solutions \o rest.solutions]
        Then(v) ==
            IF v.exc # "" THEN v
            ELSE Joined(v, balance_variants(to_balance, variants, i + 1,
                                            all_precursors, ss))
    IN  IF i > Len(variants) THEN NoSolutions
        ELSE Then(balance_variant(to_balance, variants[i], all_precursors, ss))

balance_recipe(all_precursors, variants, ss) ==
    balance_variants(screen_good_precursors(all_precursors), variants, 1,
                     all_precursors, ss)

\* The outcomes balance_recipe can have on its arguments.
Outcomes(precs, ts, ss) ==
    IF \E i \in DOMAIN ts : "elements_vars" \notin ts[i].keys
    THEN {Escaped("KeyError")}
    ELSE {balance_recipe(precs, variants, ss) :
            variants \in substitute_element_vars(ts)}

\* The call is over, and its outcome.
Over == pc \in {"done", "raised"}

Outcome ==
    IF pc = "raised" THEN Escaped(raised)
    ELSE [exc |-> "", solutions |-> solutions]

\* A target dict with the optional keys it leaves out given their defaults
\* (elements_vars = {}, additives = []).
WithDefaults(t) == [t EXCEPT !.keys = BothKeys]

\* C14: optional target fields.  A call whose targets leave out
\* 'elements_vars' or 'additives' returns, and returns what the call with
\* the keys given as {} and [] returns.
C14_OptionalTargetFields ==
    Over => Outcome \in Outcomes(precursors,
                                 [i \in DOMAIN targets |->
                                    WithDefaults(targets[i])],
                                 sentences)

\* The state machine and the function agree on the outcome of the call.
OutcomeAgrees ==
    (Over /\ vi > 0) =>
        Outcome = balance_recipe(precursors, targets_to_balance, sentences)

\* A list without its j-th member.
Without(s, j) == SubSeq(s, 1, j - 1) \o SubSeq(s, j + 1, Len(s))

\* C15: screening is a filter.  When balance_recipe has returned, taking
\* out of the input a precursor whose formula is on the left side of none
\* of the returned reactions gives a call, on the same variants, that
\* returns the same list.
C15_ScreeningIsFilter ==
    pc = "done" =>
        \A j \in DOMAIN precursors :
            (\A i \in DOMAIN solutions :
                precursors[j].material_formula \notin DOMAIN solutions[i].left)
            => balance_recipe(Without(precursors, j), targets_to_balance,
                              sentences) = Outcome

\* C16: determinism.  Whatever a call of balance_recipe on the arguments
\* of this call can do, it ends as this call has ended: with the same list,
\* the same tuples in the same order.
C16_Determinism ==
    Over => \A other \in Outcomes(precursors, targets, sentences) :
                other = Outcome

\* The formulas of a list of terms stand in ascending order.
Ascending(terms) ==
    \A k \in 1..(Len(terms) - 1) : StrLess(terms[k][2], terms[k + 1][2])

\* C17: rendered string layout.  In the string of every returned tuple the
\* terms are the entries of the two maps, amount then formula; the left
\* terms stand in ascending order of formula; the right terms begin with
\* the target's and go on in ascending order of formula; the substitution
\* is printed exactly when the tuple has one.
C17_RenderedLayout ==
    \A i \in DOMAIN solutions :
        LET Laid(t, s) ==
                /\ Len(s.left) = Cardinality(DOMAIN t.left)
                /\ Len(s.right) = Cardinality(DOMAIN t.right)
                /\ \A k \in DOMAIN s.left :
                        /\ s.left[k][2] \in DOMAIN t.left
                        /\ s.left[k][1] = t.left[s.left[k][2]]
                /\ \A k \in DOMAIN s.right :
                        /\ s.right[k][2] \in DOMAIN t.right
                        /\ s.right[k][1] = t.right[s.right[k][2]]
                /\ Ascending(s.left)
                /\ s.right # <<>>
                /\ s.right[1][2] = t.target_formula
                /\ Ascending(Tail(s.right))
                /\ s.subs = t.substitution
        IN  Laid(solutions[i], solutions[i].reaction_string)

\* C17, witness: a returned string with two terms on the left, a
\* substitution, and on the right a target whose formula comes after the
\* formula of the byproduct it is printed before.
C17_Witness ==
    \E i \in DOMAIN solutions :
        /\ Len(solutions[i].reaction_string.left) = 2
        /\ Len(solutions[i].reaction_string.right) = 2
        /\ StrLess(solutions[i].reaction_string.right[2][2],
                   solutions[i].reaction_string.right[1][2])
        /\ solutions[i].reaction_string.subs # {}

\* The balancer of a logged attempt, and the solved values of the species
\* of an attempt that returned, in column order.
CompleterOf(e) == ReactionCompleter(e.to_balance, TargetOf(e))

SolvedOf(c) ==
    gauss_jordan_solve(c.linear_eq.coefficient_matrix,
                       c.linear_eq.target_vector).solution

\* Species f is printed in the map with amount x; a species whose printed
\* amount is "0" is left out.
Shown(map, f, x) ==
    LET Printed(p) == RIsZero(p) \/ (f \in DOMAIN map /\ map[f] = p)
    IN  Printed(simplify_print(x).value)

\* The 'dr' species of a returned attempt are placed by rule: on side neg
\* with value -v when the solved value v is negative, else on side pos
\* with value v.
DrPlaced(e, neg, pos) ==
    LET Each(cols, v) ==
            \A j \in DOMAIN cols :
                cols[j].side = "dr" =>
                    IF RIsNeg(v[j])
                    THEN Shown(e.tuple[neg], cols[j].formula, RNeg(v[j]))
                    ELSE Shown(e.tuple[pos], cols[j].formula, v[j])
        Of(c) == Each(Columns(c.prep), SolvedOf(c))
    IN  Of(CompleterOf(e))

\* C18: side assignment of decomposition species.  In every returned
\* reaction a decomposition ('dr') species whose solved value v is negative
\* is on the right side with value -v, and one whose solved value is not
\* negative is on the left side with value v.
C18_DecompositionSide ==
    \A i \in DOMAIN log : log[i].exc = "" => DrPlaced(log[i], "right", "left")

\* C18 as the spec states it: negative on the left side with value -v,
\* otherwise on the right side with value v.
C18_AsStated ==
    \A i \in DOMAIN log : log[i].exc = "" => DrPlaced(log[i], "left", "right")

\* C18, witness: an attempt has returned a reaction with a decomposition
\* species whose solved value is negative, printed on the right side.
C18_Witness ==
    \E i \in DOMAIN log :
        /\ log[i].exc = ""
        /\ LET Released(cols, v) ==
                    \E j \in DOMAIN cols :
                        /\ cols[j].side = "dr"
                        /\ RIsNeg(v[j])
                        /\ cols[j].formula \in DOMAIN log[i].tuple.right
                        /\ cols[j].formula # log[i].tuple.target_formula
               Of(c) == Released(Columns(c.prep), SolvedOf(c))
           IN  Of(CompleterOf(log[i]))

\* C19: balancer immutability.  For every balancer an attempt has
\* constructed, compute_reactions leaves the stored which_side list as it
\* was, and a second call of compute_reactions ends as the first did, with
\* the same reaction.
C19_BalancerImmutable ==
    \A i \in DOMAIN log :
        LET Again(c, first) ==
                /\ first.which_side = c.linear_eq.which_side
                /\ compute_reactions(c, first.which_side) = first
            Twice(c) ==
                c.exc = "" =>
                    Again(c, compute_reactions(c, c.linear_eq.which_side))
        IN  Twice(CompleterOf(log[i]))

\* The precursors of a list that pass the filters of the balancer (not
\* empty, no non-volatile element the target does not have), each formula
\* kept once, at its first occurrence among them.
FirstPassing(to_balance, target) ==
    LET Passing ==
            {j \in DOMAIN to_balance :
                /\ DOMAIN to_balance[j].non_volatile_elements
                        \cup DOMAIN to_balance[j].other_elements # {}
                /\ DOMAIN to_balance[j].non_volatile_elements
                        \subseteq DOMAIN target.non_volatile_elements}
    IN  {j \in Passing :
            \A h \in Passing :
                h < j => to_balance[h].material_formula
                            # to_balance[j].material_formula}

\* C20: surviving precursors.  When _prepare_precursors has succeeded, the
\* candidates are, in input order, the input precursors that are not empty
\* and have no non-volatile element outside the target's, each
\* material_formula once, at its first occurrence; there is at least one;
\* the decomposition species are those of the candidates and the exchange
\* species those of the target.
C20_SurvivingPrecursors ==
    \A i \in DOMAIN log :
        LET Are(prep, keep, target) ==
                /\ prep.precursor_candidates # <<>>
                /\ prep.precursor_candidates
                    = [n \in 1..Len(keep) |-> log[i].to_balance[keep[n]]]
                /\ \A n, m \in DOMAIN prep.precursor_candidates :
                        n # m => prep.precursor_candidates[n].material_formula
                                    # prep.precursor_candidates[m].material_formula
                /\ DOMAIN prep.decomposition_chemicals
                    = UNION {DOMAIN decompose_chemicals(prep.precursor_candidates[n]) :
                                n \in DOMAIN prep.precursor_candidates}
                /\ \A n \in DOMAIN prep.precursor_candidates :
                        \A k \in DOMAIN decompose_chemicals(prep.precursor_candidates[n]) :
                            prep.decomposition_chemicals[k]
                                = decompose_chemicals(prep.precursor_candidates[n])[k]
                /\ prep.exchange_chemicals = exchange_chemicals(target)
            Survive(c, target) ==
                c.exc = "" =>
                    Are(c.prep,
                        SetToSortedIdx(FirstPassing(log[i].to_balance, target)),
                        target)
        IN  Survive(CompleterOf(log[i]), TargetOf(log[i]))

(***************************************************************************)
(* The additive annotation.                                                *)
(***************************************************************************)
\* The formulas of the input precursors that share an element with ions,
\* in sorted order.
SharingFormulas(precs, ions) ==
    LET Shared(mat_info) ==
            /\ mat_info.exc = ""
            /\ all_elements(mat_info) \cap ions # {}
        Shares(p) ==
            Shared(MaterialInformation(p.material_string, p.material_formula,
                                       p.composition, NoSubstitution))
        Formulas(with) == sorted([k \in DOMAIN with |-> with[k].material_formula])
    IN  Formulas(SelectSeq(precs, Shares))

\* C21: when the target has additives, the precursors listed after "via"
\* are exactly the input precursors, sorted by formula, that share an
\* element with the elements found in the additive strings, the elements
\* O, H and N found there not being taken into account.
C21_AdditiveOmit ==
    \A i \in DOMAIN solutions :
        LET Honoured(s) ==
                s.additives # <<>> =>
                    s.via = SharingFormulas(precursors,
                                find_ions(JoinChars(s.additives)) \ OMIT_IONS)
        IN  Honoured(solutions[i].reaction_string)

(***************************************************************************)
(* Functional groups and decomposition species of the materials.           *)
(***************************************************************************)
\* The precursors of the recipe as MaterialInformation objects, those that
\* cannot be constructed left out.
PrecursorObjects ==
    LET Made(p) ==
            MaterialInformation(p.material_string, p.material_formula,
                                p.composition, NoSubstitution)
        Valid(objects) == {m \in objects : m.exc = ""}
    IN  Valid({Made(precursors[j]) : j \in DOMAIN precursors})

\* C22: for every material for which has_water or has_hydroxide holds,
\* decompose_chemicals contains both '[OH-]' and 'H2O'.
C22_WaterHydroxideDecomposition ==
    \A m \in PrecursorObjects :
        (has_water(m) \/ has_hydroxide(m)) =>
            {"[OH-]", "H2O"} \subseteq DOMAIN decompose_chemicals(m)

\* Some component's sub-map of the elements that are not non-volatile has
\* the keys of signature and is a strictly positive multiple of it.
ContainsGroup(m, signature) ==
    \E i \in DOMAIN m.material_composition :
        LET Multiple(sub) ==
                /\ DOMAIN sub = DOMAIN signature
                /\ \A k \in DOMAIN sub : sub[k] > 0
                /\ \A k1, k2 \in DOMAIN sub :
                        sub[k1] * signature[k2] = sub[k2] * signature[k1]
            Volatile(els) ==
                Multiple([x \in DOMAIN els \ NON_VOLATILE_ELEMENTS |-> els[x]])
        IN  Volatile(m.material_composition[i].elements)

\* C23: each of has_water, has_acetate, has_nitrate, has_hydroxide,
\* has_carbonate and has_ammonium is true iff some component's sub-map of
\* the elements that are not non-volatile has the keys of the group's
\* signature and amounts that are a strictly positive multiple of it.
C23_GroupDetection ==
    \A m \in PrecursorObjects :
        /\ has_water(m) <=> ContainsGroup(m, COMP_WATER)
        /\ has_acetate(m) <=> ContainsGroup(m, COMP_ACETATE)
        /\ has_nitrate(m) <=> ContainsGroup(m, COMP_NITRATE)
        /\ has_hydroxide(m) <=> ContainsGroup(m, COMP_HYDROXIDE)
        /\ has_carbonate(m) <=> ContainsGroup(m, COMP_CARBONATE)
        /\ has_ammonium(m) <=> ContainsGroup(m, COMP_AMMONIUM)

(***************************************************************************)
(* The order of the candidate subsets.                                     *)
(***************************************************************************)
\* The subsets of one sentence a claim is about: the precursors whose
\* formula is in the sentence, those whose text is in it, and the variants
\* of the two.
SentenceSubsets(to_balance, sentence) ==
    LET FormulaIn(p) == StrIn(p.material_formula, sentence)
        StringIn(p) == StrIn(p.material_string, sentence)
        Variants(by_formula, by_string) ==
            [formula |-> by_formula,
             formula_filtered |-> SelectSeq(by_formula, no_conversion),
             string |-> by_string,
             string_filtered |-> SelectSeq(by_string, no_conversion),
             string_no_words |-> NoWords(by_string)]
    IN  Variants(SelectSeq(to_balance, FormulaIn),
                 SelectSeq(to_balance, StringIn))

NonEmptyOf(subsets) ==
    LET NotEmpty(subset) == subset # <<>>
    IN  SelectSeq(subsets, NotEmpty)

\* What is emitted when per is the list of SentenceSubsets, one per
\* sentence, and the string-match subset comes before (subset_first) or
\* after its edit-distance-filtered variant.
EmittedInOrder(per, subset_first) ==
    Flatten([k \in DOMAIN per |->
                NonEmptyOf(<<per[k].formula, per[k].formula_filtered>>)])
    \o Flatten([k \in DOMAIN per |->
                NonEmptyOf(IF subset_first
                           THEN <<per[k].string, per[k].string_filtered,
                                  per[k].string_no_words>>
                           ELSE <<per[k].string_filtered, per[k].string,
                                  per[k].string_no_words>>)])

\* The emitted subsets are non-empty, made of screened precursors, and at
\* most five per sentence.
WellFormedSubsets(cands) ==
    /\ \A k \in DOMAIN cands :
            /\ cands[k] # <<>>
            /\ \A n \in DOMAIN cands[k] :
                    \E j \in DOMAIN precursors_to_balance :
                        cands[k][n] = precursors_to_balance[j]
    /\ Len(cands) <= 5 * Len(sentences)

PerSentence ==
    [k \in DOMAIN sentences |->
        SentenceSubsets(precursors_to_balance, sentences[k])]

\* C24: find_precursors_in_same_sentence emits, for each sentence in order,
\* the formula-match subset and then its edit-distance-filtered variant,
\* and only after all sentences have been scanned for formulas, for each
\* sentence in order, the edit-distance-filtered variant of the string-match
\* subset, then the string-match subset, then its word-material-deduplicated
\* variant; every emitted subset is non-empty and contains only screened
\* precursors, and at most five subsets are emitted per sentence.
C24_CandidateOrder ==
    pc = "candidates" =>
        LET Emits(cands) ==
                /\ precursor_candidates = cands
                /\ WellFormedSubsets(cands)
        IN  Emits(EmittedInOrder(PerSentence, FALSE))

\* C24 as the claim states it: the string-match subset before its
\* edit-distance-filtered variant.
C24_AsStated ==
    pc = "candidates" =>
        LET Emits(cands) ==
                /\ precursor_candidates = cands
                /\ WellFormedSubsets(cands)
        IN  Emits(EmittedInOrder(PerSentence, TRUE))

\* C24, witness: the candidate loop is at the string-match subset of a
\* sentence, after the edit-distance-filtered variant of that subset, which
\* is another subset, was tried and failed; subsets from formulas came
\* before.
C24_Witness ==
    /\ pc = "candidates"
    /\ ci > 1
    /\ log # <<>>
    /\ log[Len(log)].stage = "candidate"
    /\ log[Len(log)].index = ci - 1
    /\ LET At(per) ==
            \E k \in DOMAIN per :
                /\ per[k].formula # <<>>
                /\ per[k].string_filtered # <<>>
                /\ per[k].string_filtered # per[k].string
                /\ precursor_candidates[ci] = per[k].string
                /\ precursor_candidates[ci - 1] = per[k].string_filtered
                /\ log[Len(log)].to_balance = per[k].string_filtered
       IN  At(PerSentence)

====
